---- MODULE Spec2Model ----
(***************************************************************************)
(* A model of src/chess/board.rs: the Board of 64 optional pieces, its     *)
(* parser from the board field of a FEN string (Board::from_fen), the      *)
(* coordinate accessors (get_tile, set_tile, remove_tile), equality and    *)
(* the textual dump (Display).                                             *)
(*                                                                         *)
(* A string is a sequence of one-character strings.  An Option<Piece> is   *)
(* a string: None, or the name of a piece.                                 *)
(***************************************************************************)
EXTENDS Integers, Sequences, FiniteSets, TLC

VARIABLES
    fen,        \* the argument of from_fen
    pc,         \* where the program is: in from_fen, or holding a board
    rows,       \* from_fen: the segments of fen
    row_index,  \* from_fen: the outer loop's index
    pos,        \* from_fen: the inner loop's position in rows[row_index] (1-based)
    i,          \* from_fen: the fill cursor
    tiles,      \* from_fen: the local array of 64 slots
    result,     \* from_fen: what it returned
    board,      \* the Board the program holds (its tiles)
    other,      \* a second Board, built by from_fen from the same string
    call,       \* the last call made on the board and its arguments
    ret,        \* what the last call returned
    last,       \* history: the last write made at each coordinate pair
    nops        \* the number of set_tile and remove_tile calls made

vars == <<fen, pc, rows, row_index, pos, i, tiles, result, board, other,
          call, ret, last, nops>>

fenVars == <<fen, rows, row_index, pos, i, tiles, result>>

-----------------------------------------------------------------------------
(* Program constants *)

NumTiles == 64
NumRows == 8
RowWidth == 8
MaxCoord == 7

Slots == 0 .. (NumTiles - 1)

-----------------------------------------------------------------------------
(* Piece: the dependency of board.rs, a value convertible from and to a    *)
(* single character by the standard FEN letters.                           *)

None == "None"
PieceErr == "PieceErr"

PieceChars == {"P", "N", "B", "R", "Q", "K", "p", "n", "b", "r", "q", "k"}

\* Piece::try_from(c): the piece of a letter, or an error.
PieceTryFrom(c) ==
    CASE c = "P" -> "WhitePawn"
      [] c = "N" -> "WhiteKnight"
      [] c = "B" -> "WhiteBishop"
      [] c = "R" -> "WhiteRook"
      [] c = "Q" -> "WhiteQueen"
      [] c = "K" -> "WhiteKing"
      [] c = "p" -> "BlackPawn"
      [] c = "n" -> "BlackKnight"
      [] c = "b" -> "BlackBishop"
      [] c = "r" -> "BlackRook"
      [] c = "q" -> "BlackQueen"
      [] c = "k" -> "BlackKing"
      [] OTHER -> PieceErr

\* char::from(piece): the letter of a piece.
PieceIntoChar(p) ==
    CASE p = "WhitePawn" -> "P"
      [] p = "WhiteKnight" -> "N"
      [] p = "WhiteBishop" -> "B"
      [] p = "WhiteRook" -> "R"
      [] p = "WhiteQueen" -> "Q"
      [] p = "WhiteKing" -> "K"
      [] p = "BlackPawn" -> "p"
      [] p = "BlackKnight" -> "n"
      [] p = "BlackBishop" -> "b"
      [] p = "BlackRook" -> "r"
      [] p = "BlackQueen" -> "q"
      [] p = "BlackKing" -> "k"

-----------------------------------------------------------------------------
(* Board::from_fen *)

ParseErr == -1

\* c.to_string().parse::<usize>(): the value of one ASCII digit, or an error.
ParseUsize(c) ==
    CASE c = "0" -> 0
      [] c = "1" -> 1
      [] c = "2" -> 2
      [] c = "3" -> 3
      [] c = "4" -> 4
      [] c = "5" -> 5
      [] c = "6" -> 6
      [] c = "7" -> 7
      [] c = "8" -> 8
      [] c = "9" -> 9
      [] OTHER -> ParseErr

\* fen.split('/').collect(): the segments between the slashes, one more than
\* there are slashes; segment j lies between slash j-1 and slash j.
SplitOn(s, sep) ==
    LET slashes == {k \in 1 .. Len(s) : s[k] = sep}
        n == Cardinality(slashes)
        At(j) == IF j = 0 THEN 0
                 ELSE IF j = n + 1 THEN Len(s) + 1
                 ELSE CHOOSE k \in slashes :
                          Cardinality({m \in slashes : m <= k}) = j
    IN  [j \in 1 .. (n + 1) |-> SubSeq(s, At(j - 1) + 1, At(j) - 1)]

Split(s) == SplitOn(s, "/")

\* A variant of the check that lets more than 8 rows through.
WrongRowCountFewer(rs) == Len(rs) < NumRows

\* rows.len() != 8
WrongRowCount(rs) == Len(rs) # NumRows

\* [None; 64]
EmptyTiles == [k \in Slots |-> None]

\* No Board: from_fen has not returned one.
NoBoard == <<>>

\* A variant of the guard that is off by one.
RowFullStrict(r, cur) == cur > r * RowWidth + RowWidth

\* The guard of the inner loop: the row being scanned is already full.
RowFull(r, cur) == cur >= r * RowWidth + RowWidth

\* A variant of the body that does not advance the cursor past a piece.
ScanCharNoAdvance(r, c, cur, t) ==
    IF RowFull(r, cur)
    THEN [status |-> "IncorrectAmountOfTiles", i |-> cur, tiles |-> t]
    ELSE IF ParseUsize(c) # ParseErr
    THEN [status |-> "Continue", i |-> cur + ParseUsize(c), tiles |-> t]
    ELSE IF PieceTryFrom(c) = PieceErr
    THEN [status |-> "UnknownCharacter", i |-> cur, tiles |-> t]
    ELSE IF cur \notin Slots
    THEN [status |-> "Panic", i |-> cur, tiles |-> t]
    ELSE [status |-> "Continue", i |-> cur,
          tiles |-> [t EXCEPT ![cur] = PieceTryFrom(c)]]

\* The body of the inner loop for character c of row r, from cursor cur and
\* array t: the status ("Continue", an error of from_fen, or "Panic" for an
\* index out of the array's bounds), the cursor and the array after it.
ScanChar(r, c, cur, t) ==
    LET parsed_value == ParseUsize(c)
        piece == PieceTryFrom(c)
    IN  IF RowFull(r, cur)
        THEN [status |-> "IncorrectAmountOfTiles", i |-> cur, tiles |-> t]
        ELSE IF parsed_value # ParseErr
        THEN [status |-> "Continue", i |-> cur + parsed_value, tiles |-> t]
        ELSE IF piece = PieceErr
        THEN [status |-> "UnknownCharacter", i |-> cur, tiles |-> t]
        ELSE IF cur \notin Slots
        THEN [status |-> "Panic", i |-> cur, tiles |-> t]
        ELSE [status |-> "Continue", i |-> cur + 1,
              tiles |-> [t EXCEPT ![cur] = piece]]

\* The check after the loops.
FinalStatus(cur) == IF cur # NumTiles THEN "IncorrectAmountOfTiles" ELSE "Ok"

\* The inner loop over row r (0-based) from position p (1-based) on: the
\* state at its end, or at the first iteration that returns.
RECURSIVE ScanRow(_, _, _, _)
ScanRow(row, r, p, st) ==
    IF p > Len(row) \/ st.status # "Continue" THEN st
    ELSE ScanRow(row, r, p + 1, ScanChar(r, row[p], st.i, st.tiles))

\* The outer loop from row r (0-based) on.
RECURSIVE ScanRows(_, _, _)
ScanRows(rs, r, st) ==
    IF r >= Len(rs) \/ st.status # "Continue" THEN st
    ELSE ScanRows(rs, r + 1, ScanRow(rs[r + 1], r, 1, st))

\* from_fen as a function of its argument: what it returns, and the Board.
FromFen(s) ==
    IF WrongRowCount(Split(s))
    THEN [result |-> "IncorrectAmountOfSlash", board |-> NoBoard]
    ELSE LET st == ScanRows(Split(s), 0,
                            [status |-> "Continue", i |-> 0, tiles |-> EmptyTiles])
         IN  IF st.status # "Continue"
             THEN [result |-> st.status, board |-> NoBoard]
             ELSE [result |-> FinalStatus(st.i),
                   board |-> IF FinalStatus(st.i) = "Ok" THEN st.tiles
                             ELSE NoBoard]

-----------------------------------------------------------------------------
(* Coordinate access *)

\* A variant of the check that faults only when both coordinates are out.
OutOfRangeBoth(x, y) == x > MaxCoord /\ y > MaxCoord

\* The precondition check of get_tile, set_tile and remove_tile.
OutOfRange(x, y) == x > MaxCoord \/ y > MaxCoord

\* A variant of the index with the coordinates exchanged.
TileIndexSwapped(x, y) == x * RowWidth + y

\* let index = y * 8 + x
TileIndex(x, y) == y * RowWidth + x

\* self.tiles[index]
GetTile(b, x, y) == b[TileIndex(x, y)]

\* self.tiles[index] = Some(piece)
SetTile(b, x, y, piece) == [b EXCEPT ![TileIndex(x, y)] = piece]

\* self.tiles[index] = None
RemoveTile(b, x, y) == [b EXCEPT ![TileIndex(x, y)] = None]

-----------------------------------------------------------------------------
(* PartialEq *)

\* zip(self.tiles, other.tiles).all(|(a, b)| a == b) over the pairs lo..hi,
\* in order, the first half before the second.
RECURSIVE AllPairs(_, _, _, _)
AllPairs(a, b, lo, hi) ==
    IF lo > hi THEN TRUE
    ELSE IF lo = hi THEN a[lo] = b[lo]
    ELSE /\ AllPairs(a, b, lo, (lo + hi) \div 2)
         /\ AllPairs(a, b, (lo + hi) \div 2 + 1, hi)

\* A variant of the comparison that stops one pair short.
BoardEqShort(a, b) == AllPairs(a, b, 0, NumTiles - 2)

\* self.tiles == other.tiles, pair by pair over the 64 pairs.
BoardEq(a, b) == AllPairs(a, b, 0, NumTiles - 1)

-----------------------------------------------------------------------------
(* Display *)

\* A variant of the test without its second half.
LineBreakBeforeAll(k) == k % RowWidth = 0

\* i % 8 == 0 && i != 0
LineBreakBefore(k) == k % RowWidth = 0 /\ k # 0

\* The character pushed for one tile.
TileChar(tile) == IF tile # None THEN PieceIntoChar(tile) ELSE "-"

\* A variant of the body that breaks the line after a row's last tile.
FmtTileBreakAfter(b, k) ==
    <<TileChar(b[k])>> \o (IF k % RowWidth = RowWidth - 1 THEN <<"\n">> ELSE <<>>)

\* The body of the loop of fmt for tile k: what it appends to game_string.
FmtTile(b, k) ==
    (IF LineBreakBefore(k) THEN <<"\n">> ELSE <<>>) \o <<TileChar(b[k])>>

\* The loop of fmt over the tiles lo..hi, in order: what it appends.
RECURSIVE FmtTiles(_, _, _)
FmtTiles(b, lo, hi) ==
    IF lo > hi THEN <<>>
    ELSE IF lo = hi THEN FmtTile(b, lo)
    ELSE FmtTiles(b, lo, (lo + hi) \div 2)
         \o FmtTiles(b, (lo + hi) \div 2 + 1, hi)

Fmt(b) == FmtTiles(b, 0, NumTiles - 1)

-----------------------------------------------------------------------------
(* The inputs *)

\* The number of consecutive rows of an input drawn freely from RowPool.
WindowLen == 2
\* The number of set_tile and remove_tile calls made on a board.
MaxOps == 2

RowPool ==
    { <<"8">>, <<"4", "4">>, <<"3", "p", "4">>, <<"7", "R">>, <<"k", "7">>,
      <<"9">>, <<"7">>, <<"7", "P", "q">>, <<>>,
      <<"x", "7">>, <<"0", "8">>, <<"8", "x">> }

StartRows ==
    << <<"r", "n", "b", "q", "k", "b", "n", "r">>,
       <<"p", "p", "p", "p", "p", "p", "p", "p">>,
       <<"8">>, <<"8">>, <<"8">>, <<"8">>,
       <<"P", "P", "P", "P", "P", "P", "P", "P">>,
       <<"R", "N", "B", "Q", "K", "B", "N", "R">> >>

BlankRows == [k \in 1 .. NumRows |-> <<"8">>]

\* Eight rows: a base with WindowLen consecutive rows replaced from RowPool.
RowLists ==
    { [k \in 1 .. NumRows |->
          IF k >= p /\ k < p + WindowLen THEN w[k - p + 1] ELSE base[k]] :
      base \in {StartRows, BlankRows},
      p \in 1 .. (NumRows - WindowLen + 1),
      w \in [1 .. WindowLen -> RowPool] }

\* Seven, eight and nine rows.
SegLists ==
    RowLists
    \cup {SubSeq(rs, 1, NumRows - 1) : rs \in RowLists}
    \cup {Append(rs, <<"8">>) : rs \in RowLists}

RECURSIVE Join(_)
Join(rs) ==
    IF Len(rs) = 0 THEN <<>>
    ELSE IF Len(rs) = 1 THEN rs[1]
    ELSE rs[1] \o <<"/">> \o Join(Tail(rs))

Inputs == {Join(rs) : rs \in SegLists} \cup {<<>>}

\* The strings the boards of SpecTiles are built from.
StartFens ==
    { Join(StartRows), Join(BlankRows),
      Join([BlankRows EXCEPT ![1] = <<"k", "6", "Q">>, ![8] = <<"R", "6", "n">>]) }

\* The arguments of the coordinate calls: in range, and just out of it.
Coords == {0, 7, 8}
ArgPieces == {"WhitePawn", "BlackKing"}

-----------------------------------------------------------------------------
(* The state machine *)

NoCall == [op |-> "none", x |-> 0, y |-> 0, piece |-> None]
NoRet == [kind |-> "none"]
Unwritten == "Unwritten"
NoWrites == [c \in (0 .. MaxCoord) \X (0 .. MaxCoord) |-> Unwritten]

\* from_fen is called with one of the inputs.
Init ==
    /\ fen \in Inputs
    /\ pc = "from_fen"
    /\ rows = <<>>
    /\ row_index = 0
    /\ pos = 1
    /\ i = 0
    /\ tiles = EmptyTiles
    /\ result = "None"
    /\ board = NoBoard
    /\ other = NoBoard
    /\ call = NoCall
    /\ ret = NoRet
    /\ last = NoWrites
    /\ nops = 0

\* Lines 20-28: the split and the check of the number of rows.
FromFenSplit ==
    /\ pc = "from_fen"
    /\ rows' = Split(fen)
    /\ IF WrongRowCount(Split(fen))
       THEN /\ result' = "IncorrectAmountOfSlash"
            /\ pc' = "returned"
       ELSE /\ result' = result
            /\ pc' = "scan"
    /\ UNCHANGED <<fen, row_index, pos, i, tiles, board, other, call, ret,
                   last, nops>>

\* Lines 30-46: one iteration of the inner loop.
FromFenChar ==
    /\ pc = "scan"
    /\ row_index < Len(rows)
    /\ pos <= Len(rows[row_index + 1])
    /\ LET st == ScanChar(row_index, rows[row_index + 1][pos], i, tiles)
       IN  /\ i' = st.i
           /\ tiles' = st.tiles
           /\ IF st.status = "Continue"
              THEN /\ pos' = pos + 1
                   /\ UNCHANGED <<pc, result>>
              ELSE /\ pos' = pos
                   /\ result' = st.status
                   /\ pc' = IF st.status = "Panic" THEN "panicked"
                            ELSE "returned"
    /\ UNCHANGED <<fen, rows, row_index, board, other, call, ret, last, nops>>

\* Line 29: the inner loop is over, the outer loop takes the next row.
FromFenNextRow ==
    /\ pc = "scan"
    /\ row_index < Len(rows)
    /\ pos > Len(rows[row_index + 1])
    /\ row_index' = row_index + 1
    /\ pos' = 1
    /\ UNCHANGED <<fen, pc, rows, i, tiles, result, board, other, call, ret,
                   last, nops>>

\* Lines 49-53: the check of the total, and the Board returned.
FromFenReturn ==
    /\ pc = "scan"
    /\ row_index >= Len(rows)
    /\ result' = FinalStatus(i)
    /\ board' = IF FinalStatus(i) = "Ok" THEN tiles ELSE NoBoard
    /\ pc' = "returned"
    /\ UNCHANGED <<fen, rows, row_index, pos, i, tiles, other, call, ret,
                   last, nops>>

\* The program holds a board and can call its methods.
HasBoard == pc = "returned" /\ result = "Ok"

\* board.to_string()
FmtCall ==
    /\ HasBoard
    /\ call' = [NoCall EXCEPT !.op = "fmt"]
    /\ ret' = [kind |-> "string", str |-> Fmt(board)]
    /\ UNCHANGED <<fenVars, pc, board, other, last, nops>>

\* board == other
EqCall ==
    /\ HasBoard
    /\ call' = [NoCall EXCEPT !.op = "eq"]
    /\ ret' = [kind |-> "bool", val |-> BoardEq(board, other)]
    /\ UNCHANGED <<fenVars, pc, board, other, last, nops>>

\* board.get_tile(x, y)
GetTileCall(x, y) ==
    /\ HasBoard
    /\ call' = [NoCall EXCEPT !.op = "get_tile", !.x = x, !.y = y]
    /\ IF OutOfRange(x, y)
       THEN /\ pc' = "panicked"
            /\ ret' = NoRet
       ELSE /\ pc' = pc
            /\ ret' = [kind |-> "tile", tile |-> GetTile(board, x, y)]
    /\ UNCHANGED <<fenVars, board, other, last, nops>>

\* board.set_tile(x, y, piece)
SetTileCall(x, y, piece) ==
    /\ HasBoard
    /\ nops < MaxOps
    /\ call' = [op |-> "set_tile", x |-> x, y |-> y, piece |-> piece]
    /\ IF OutOfRange(x, y)
       THEN /\ pc' = "panicked"
            /\ ret' = NoRet
            /\ UNCHANGED <<board, last, nops>>
       ELSE /\ pc' = pc
            /\ ret' = [kind |-> "unit"]
            /\ board' = SetTile(board, x, y, piece)
            /\ last' = [last EXCEPT ![<<x, y>>] = piece]
            /\ nops' = nops + 1
    /\ UNCHANGED <<fenVars, other>>

\* board.remove_tile(x, y)
RemoveTileCall(x, y) ==
    /\ HasBoard
    /\ nops < MaxOps
    /\ call' = [NoCall EXCEPT !.op = "remove_tile", !.x = x, !.y = y]
    /\ IF OutOfRange(x, y)
       THEN /\ pc' = "panicked"
            /\ ret' = NoRet
            /\ UNCHANGED <<board, last, nops>>
       ELSE /\ pc' = pc
            /\ ret' = [kind |-> "unit"]
            /\ board' = RemoveTile(board, x, y)
            /\ last' = [last EXCEPT ![<<x, y>>] = None]
            /\ nops' = nops + 1
    /\ UNCHANGED <<fenVars, other>>

\* from_fen on every input, and the dump of the board it returns.
Next ==
    \/ FromFenSplit
    \/ FromFenChar
    \/ FromFenNextRow
    \/ FromFenReturn
    \/ FmtCall

Spec == Init /\ [][Next]_vars

\* Two boards built by from_fen from the same string, the first then read,
\* written, compared and dumped.
InitTiles ==
    /\ fen \in StartFens
    /\ pc = "returned"
    /\ rows = Split(fen)
    /\ row_index = NumRows
    /\ pos = 1
    /\ i = NumTiles
    /\ tiles = FromFen(fen).board
    /\ result = FromFen(fen).result
    /\ board = FromFen(fen).board
    /\ other = FromFen(fen).board
    /\ call = NoCall
    /\ ret = NoRet
    /\ last = NoWrites
    /\ nops = 0

NextTiles ==
    \/ \E x \in Coords, y \in Coords : GetTileCall(x, y)
    \/ \E x \in Coords, y \in Coords, piece \in ArgPieces : SetTileCall(x, y, piece)
    \/ \E x \in Coords, y \in Coords : RemoveTileCall(x, y)
    \/ FmtCall
    \/ EqCall

SpecTiles == InitTiles /\ [][NextTiles]_vars

-----------------------------------------------------------------------------
(* What the properties are stated with *)

Digits19 == {"1", "2", "3", "4", "5", "6", "7", "8", "9"}
Digits18 == Digits19 \ {"9"}

\* The number of '/'-separated segments of a string.
SegCount(s) == Cardinality({k \in 1 .. Len(s) : s[k] = "/"}) + 1

\* The characters of the rows of a string.
RowChars(s) == {s[k] : k \in 1 .. Len(s)} \ {"/"}

\* The squares a row describes: one per piece letter, d per digit d.
RECURSIVE RowSum(_)
RowSum(row) ==
    IF Len(row) = 0 THEN 0
    ELSE (IF Head(row) \in PieceChars THEN 1 ELSE ParseUsize(Head(row)))
         + RowSum(Tail(row))

\* The squares of a row, each digit d expanded to d empty squares.
RECURSIVE Expand(_)
Expand(row) ==
    IF Len(row) = 0 THEN <<>>
    ELSE (IF Head(row) \in PieceChars THEN <<PieceTryFrom(Head(row))>>
          ELSE [k \in 1 .. ParseUsize(Head(row)) |-> None])
         \o Expand(Tail(row))

\* Eight rows of exactly eight squares each, over the digits 1-8 and the letters.
ValidFen(s) ==
    /\ SegCount(s) = NumRows
    /\ RowChars(s) \subseteq (PieceChars \cup Digits18)
    /\ \A r \in 1 .. NumRows : RowSum(Split(s)[r]) = RowWidth

Returned == pc = "returned"

DigitChar(n) ==
    CASE n = 1 -> "1" [] n = 2 -> "2" [] n = 3 -> "3" [] n = 4 -> "4"
      [] n = 5 -> "5" [] n = 6 -> "6" [] n = 7 -> "7" [] n = 8 -> "8"
      [] n = 9 -> "9"

\* A row with each maximal run of digits written as one digit.
RECURSIVE MergeDigits(_)
MergeDigits(row) ==
    IF Len(row) < 2 THEN row
    ELSE IF row[1] \in Digits19 /\ row[2] \in Digits19
    THEN MergeDigits(<<DigitChar(ParseUsize(row[1]) + ParseUsize(row[2]))>>
                     \o SubSeq(row, 3, Len(row)))
    ELSE <<row[1]>> \o MergeDigits(Tail(row))

\* The normalized form of a FEN board field.
Normalize(s) == Join([r \in 1 .. Len(Split(s)) |-> MergeDigits(Split(s)[r])])

\* A line of the dump with each maximal run of '-' replaced by its length.
RECURSIVE RleLine(_, _)
RleLine(line, run) ==
    IF Len(line) = 0 THEN (IF run > 0 THEN <<DigitChar(run)>> ELSE <<>>)
    ELSE IF Head(line) = "-" THEN RleLine(Tail(line), run + 1)
    ELSE (IF run > 0 THEN <<DigitChar(run)>> ELSE <<>>)
         \o <<Head(line)>> \o RleLine(Tail(line), 0)

\* The dump, run-length encoded line by line, the lines joined by '/'.
RleDump(d) ==
    Join([r \in 1 .. Len(SplitOn(d, "\n")) |-> RleLine(SplitOn(d, "\n")[r], 0)])

\* What the history of writes says coordinate (x, y) holds.
Expected(x, y) ==
    IF last[<<x, y>>] = Unwritten THEN other[y * 8 + x] ELSE last[<<x, y>>]

\* The slots at which two boards differ.
DiffSlots(a, b) == {k \in Slots : a[k] # b[k]}

-----------------------------------------------------------------------------
(* The properties *)

\* C1: an input of 8 rows over the digits 1-9 and the piece letters in which
\* some row does not sum to exactly 8 squares is rejected with
\* IncorrectAmountOfTiles.
C1_BadRowSumRejected ==
    (/\ Returned
     /\ SegCount(fen) = NumRows
     /\ RowChars(fen) \subseteq (PieceChars \cup Digits19)
     /\ \E r \in 1 .. NumRows : RowSum(Split(fen)[r]) # RowWidth)
    => result = "IncorrectAmountOfTiles"

\* C2: from_fen returns IncorrectAmountOfSlash if and only if the input does
\* not have exactly 8 segments, and it does so before any character is
\* examined, whatever the rows hold.
C2_SlashCount ==
    Returned =>
        /\ (result = "IncorrectAmountOfSlash") <=> (SegCount(fen) # NumRows)
        /\ result = "IncorrectAmountOfSlash" =>
               /\ i = 0 /\ row_index = 0 /\ pos = 1
               /\ tiles = EmptyTiles
               /\ board = NoBoard

C2_Witness ==
    /\ Returned
    /\ result = "IncorrectAmountOfSlash"
    /\ SegCount(fen) = NumRows + 1
    /\ "x" \in RowChars(fen)
    /\ \E r \in 1 .. NumRows : RowSum(Split(fen)[r]) > RowWidth

\* C3: an input of 8 rows in which some character is neither a digit 1-9 nor
\* a piece letter fails with UnknownCharacter.
C3_BadCharRejected ==
    (/\ Returned
     /\ SegCount(fen) = NumRows
     /\ ~(RowChars(fen) \subseteq (PieceChars \cup Digits19)))
    => result = "UnknownCharacter"

\* C4: a valid input gives a board holding, at slot r*8+c, what stands at
\* column c of row r with the digits expanded, and nothing else; the initial
\* position has its rooks at 0, 7, 56, 63, its pawns at 8-15 and 48-55, and
\* slots 16-47 empty.
C4_ValidFenBoard ==
    (Returned /\ ValidFen(fen)) =>
        /\ result = "Ok"
        /\ DOMAIN board = Slots
        /\ \A r \in 0 .. 7, c \in 0 .. 7 :
               board[r * 8 + c] = Expand(Split(fen)[r + 1])[c + 1]
        /\ fen = Join(StartRows) =>
               /\ board[0] = "BlackRook" /\ board[7] = "BlackRook"
               /\ board[56] = "WhiteRook" /\ board[63] = "WhiteRook"
               /\ \A k \in 8 .. 15 : board[k] = "BlackPawn"
               /\ \A k \in 48 .. 55 : board[k] = "WhitePawn"
               /\ \A k \in 16 .. 47 : board[k] = None

C4_Witness ==
    /\ Returned
    /\ ValidFen(fen)
    /\ result = "Ok"
    /\ \E r \in 1 .. NumRows : Split(fen)[r] = <<"4", "4">>
    /\ \E r \in 1 .. NumRows : Split(fen)[r] = <<"3", "p", "4">>
    /\ Split(fen)[8] = StartRows[8]

\* C5: get_tile(x, y) returns the piece of the last set_tile at (x, y), empty
\* if the last write there was remove_tile, and the starting occupant if
\* (x, y) was never written; every slot k holds what the writes at
\* (k % 8, k / 8) say, so a write at (x, y) touches slot y*8+x alone, and
\* get_tile leaves the board as it was.
C5_LastWriteWins ==
    HasBoard =>
        /\ \A x \in 0 .. 7, y \in 0 .. 7 : GetTile(board, x, y) = Expected(x, y)
        /\ \A k \in Slots : board[k] = Expected(k % 8, k \div 8)
        /\ call.op = "get_tile" =>
               /\ ret.kind = "tile"
               /\ ret.tile = Expected(call.x, call.y)

C5_Witness ==
    /\ HasBoard
    /\ call.op = "get_tile" /\ call.x = 7 /\ call.y = 7
    /\ ret.tile = "BlackKing"
    /\ other[63] = "WhiteRook"
    /\ last[<<0, 0>>] = None
    /\ other[0] = "BlackRook"
    /\ nops = 2

\* C6: a call of get_tile, set_tile or remove_tile with x > 7 or y > 7
\* panics, returns nothing and leaves the board as it was.
C6_OutOfRangePanics ==
    [][(/\ call'.op \in {"get_tile", "set_tile", "remove_tile"}
        /\ (call'.x > 7 \/ call'.y > 7))
       => (pc' = "panicked" /\ board' = board /\ ret' = NoRet)]_vars

C6_Witness ==
    /\ pc = "panicked"
    /\ call.op = "set_tile" /\ call.x = 8 /\ call.y = 0
    /\ nops = 1

\* C7: for a valid input, the dump of the board from_fen returns, run-length
\* encoded line by line and joined by '/', is the input in normalized form.
C7_RoundTrip ==
    (HasBoard /\ ValidFen(fen) /\ call.op = "fmt") =>
        RleDump(ret.str) = Normalize(fen)

C7_Witness ==
    /\ HasBoard /\ ValidFen(fen) /\ call.op = "fmt"
    /\ Normalize(fen) # fen
    /\ \E r \in 1 .. NumRows : Split(fen)[r] = <<"3", "p", "4">>

\* C8: the dump is 8 lines of 8 characters joined by single newlines, 71
\* characters in all; character k of line r is the letter of slot r*8+k, or
\* '-' when the slot is empty.
C8_DumpShape ==
    (HasBoard /\ call.op = "fmt") =>
        /\ Len(ret.str) = 71
        /\ \A r \in 0 .. 7, k \in 0 .. 7 :
               ret.str[r * 9 + k + 1] =
                   IF board[r * 8 + k] = None THEN "-"
                   ELSE PieceIntoChar(board[r * 8 + k])
        /\ \A r \in 1 .. 7 : ret.str[r * 9] = "\n"

C8_Witness ==
    /\ HasBoard /\ call.op = "fmt"
    /\ board[63] = "WhitePawn" /\ other[63] = "BlackKnight"
    /\ board[0] = None /\ other[0] = "BlackKing"

\* C9: two boards are equal if and only if their 64 slots agree: the two
\* boards built from the same string are equal, and boards that differ in
\* exactly one slot are unequal.
C9_EqIsSlotwise ==
    HasBoard =>
        /\ BoardEq(board, other) <=> (\A k \in Slots : board[k] = other[k])
        /\ nops = 0 => BoardEq(board, other)
        /\ Cardinality(DiffSlots(board, other)) = 1 => ~BoardEq(board, other)
        /\ call.op = "eq" => ret.val = (DiffSlots(board, other) = {})

C9_Witness ==
    /\ HasBoard /\ call.op = "eq"
    /\ ret.val = FALSE
    /\ DiffSlots(board, other) = {63}
    /\ nops = 1

\* C10: while from_fen scans row r, every slot written so far lies below
\* r*8+8, so below 64; from_fen never panics, and what it returns is a Board
\* or one of its three errors.
C10_WritesStayInRow ==
    /\ pc # "panicked"
    /\ result # "Panic"
    /\ pc = "scan" =>
           \A k \in Slots : tiles[k] # None => k < row_index * 8 + 8
    /\ Returned =>
           /\ result \in {"Ok", "IncorrectAmountOfSlash",
                          "IncorrectAmountOfTiles", "UnknownCharacter"}
           /\ (result = "Ok") <=> (DOMAIN board = Slots)

C10_Witness ==
    /\ pc = "scan"
    /\ row_index = 7
    /\ tiles[63] # None
    /\ tiles[7] # None
    /\ i = NumTiles

====
